---- MODULE Spec2Model ----
(***************************************************************************)
(* A model of app.py: the POST /run handler (run_agent) and the functions  *)
(* it calls, with the process-wide lru_cache of smart_scrape.              *)
(*                                                                         *)
(* Strings that the code only compares or passes on (URLs, domains, page   *)
(* texts) are TLA+ strings.  Strings that the code takes apart (the        *)
(* website of a request, the reply of the LLM) are sequences of tokens:    *)
(* a website is a sequence over scheme tokens, "/" and name tokens, a      *)
(* reply is a sequence over label tokens, white-space tokens and words.    *)
(* A company name is represented by its length.  One request is in flight  *)
(* at a time; the cache outlives the requests.  The optional firmCRD only  *)
(* adds a paragraph to the prompt and a field to the result, and the cap   *)
(* of 5000 characters only shortens a page text; neither is modelled.      *)
(***************************************************************************)
EXTENDS Integers, Sequences, FiniteSets, TLC

\* ---------------------------------------------------------------- bounds

\* Requests the server takes before the model stops accepting.
MaxRequests == 2

\* Capacity of the cache of smart_scrape: @lru_cache(maxsize=100) in the
\* source, scaled down so that eviction is reachable.  Every statement
\* about the cache is made in terms of maxsize.
maxsize == 2

\* ------------------------------------------------------ program constants

\* len(company_name) > 200
MaxCompanyLen == 200

\* results.get('organic_results', [])[:5]
TopN == 5

\* -------------------------------------------------------- sequence helpers

Take(s, n) == SubSeq(s, 1, IF n < Len(s) THEN n ELSE Len(s))

Drop(s, n) == SubSeq(s, n + 1, Len(s))

RECURSIVE Join(_)
\* "".join(parts) for a sequence of strings
Join(parts) == IF parts = <<>> THEN "" ELSE Head(parts) \o Join(Tail(parts))

RECURSIVE Without(_, _)
\* s.replace(t, "") on tokens: every occurrence of a token of ts removed
Without(s, ts) ==
    IF s = <<>> THEN <<>>
    ELSE IF Head(s) \in ts THEN Without(Tail(s), ts)
         ELSE <<Head(s)>> \o Without(Tail(s), ts)

\* ---------------------------------------------------------- normalize_domain

SchemeTokens == {"https://", "http://"}

\* name tokens that themselves begin with the letters "http"
HttpLikeNames == {"httpbin.org"}

\* website.startswith("http")
StartsWithHttp(website) ==
    /\ website # <<>>
    /\ website[1] \in SchemeTokens \cup HttpLikeNames

\* website.replace("https://", "").replace("http://", "").split("/")[0]
FirstSegment(website) ==
    LET bare == Without(website, SchemeTokens)
        cut  == IF \E i \in 1..Len(bare) : bare[i] = "/"
                THEN (CHOOSE i \in 1..Len(bare) :
                         /\ bare[i] = "/"
                         /\ \A j \in 1..(i - 1) : bare[j] # "/") - 1
                ELSE Len(bare)
    IN  Join(SubSeq(bare, 1, cut))

normalize_domain(website) ==
    LET w == IF StartsWithHttp(website) THEN website
             ELSE <<"https://">> \o website
    IN  [website |-> w, domain |-> FirstSegment(w)]

\* ------------------------------------------------------------ validate_inputs

\* urlparse(website): the scheme is what precedes "://" at the start, the
\* netloc is what follows it up to the first "/".
urlparse(website) ==
    IF website # <<>> /\ website[1] \in SchemeTokens
    THEN [scheme |-> website[1],
          netloc |-> FirstSegment(Tail(website))]
    ELSE [scheme |-> "", netloc |-> ""]

validate_inputs(company_name, website) ==
    IF company_name > MaxCompanyLen
    THEN [ok |-> FALSE, error |-> "Company name too long"]
    ELSE LET result == urlparse(website)
         IN  IF result.scheme = "" \/ result.netloc = ""
             THEN [ok |-> FALSE, error |-> "Invalid website URL"]
             ELSE [ok |-> TRUE, error |-> ""]

\* ---------------------------------------------------------------- fallback_urls

FallbackPaths ==
    << "/about", "/team", "/leadership", "/who-we-are", "/who-we-serve",
       "/services", "/contact-us", "/who-we-serve", "/fees",
       "/investment-philosophy", "/investment-strategy",
       "/investment-approach", "/about/team", "/our-story" >>

fallback_urls(domain) ==
    [i \in 1..Len(FallbackPaths) |-> "https://" \o domain \o FallbackPaths[i]]

\* ---------------------------------------------------------- parse_gpt_response

WhiteSpace == {" ", "\n"}

\* re.IGNORECASE: the label a token stands for, whatever its case
Fold(tok) ==
    CASE tok \in {"Goals:", "goals:"}     -> "Goals:"
      [] tok \in {"Outlook:", "OUTLOOK:"} -> "Outlook:"
      [] tok \in {"Summary:", "summary:"} -> "Summary:"
      [] OTHER -> tok

\* "\n" followed by the label `last` stands at position k
IsEnd(text, last, k) ==
    /\ 1 <= k
    /\ k < Len(text)
    /\ text[k] = "\n"
    /\ Fold(text[k + 1]) = last

\* the first position from pos on that holds the label, 0 if there is none
FindLabel(text, label, pos) ==
    LET find[p \in 1..(Len(text) + 1)] ==
            IF p > Len(text) THEN 0
            ELSE IF Fold(text[p]) = label THEN p
            ELSE find[p + 1]
    IN  find[pos]

\* the first position from pos on where "\n" + last stands, 0 if there is none
FindEnd(text, last, pos) ==
    LET find[p \in 0..(Len(text) + 1)] ==
            IF p >= Len(text) THEN 0
            ELSE IF IsEnd(text, last, p) THEN p
            ELSE find[p + 1]
    IN  find[pos]

\* the last position up to pos where "\n" + last stands, 0 if there is none
LastEnd(text, last, pos) ==
    LET find[p \in -1..Len(text)] ==
            IF p < 1 THEN 0
            ELSE IF IsEnd(text, last, p) THEN p
            ELSE find[p - 1]
    IN  find[pos]

\* the position after the run of white space that starts at pos
RunEnd(text, pos) ==
    LET skip[p \in 1..(Len(text) + 1)] ==
            IF p <= Len(text) /\ text[p] \in WhiteSpace THEN skip[p + 1] ELSE p
    IN  skip[pos]

\* the position before the run of white space that ends at pos
RunStart(text, pos) ==
    LET skip[p \in 0..Len(text)] ==
            IF p >= 1 /\ text[p] \in WhiteSpace THEN skip[p - 1] ELSE p
    IN  skip[pos]

\* str.strip()
Strip(s) == SubSeq(s, RunEnd(s, 1), RunStart(s, Len(s)))

\* re.search(first \s*(.*?)\n last, re.DOTALL) finds a match: the search is
\* leftmost, and the first label has a "\n" + last after it or none has
Matches(text, first, last) ==
    /\ FindLabel(text, first, 1) # 0
    /\ FindEnd(text, last, FindLabel(text, first, 1) + 1) # 0

\* .group(1) of that match: \s* takes the longest run of white space that
\* still leaves a "\n" + last to find (it gives back what it must), and the
\* lazy group stops at the nearest one
Group1(text, first, last) ==
    LET run  == RunEnd(text, FindLabel(text, first, 1) + 1)
        most == LastEnd(text, last, Len(text) - 1)
        from == IF run < most THEN run ELSE most
    IN  SubSeq(text, from, FindEnd(text, last, from) - 1)

parse_gpt_response(gpt_text) ==
    [goals   |-> IF Matches(gpt_text, "Goals:", "Outlook:")
                 THEN Strip(Group1(gpt_text, "Goals:", "Outlook:"))
                 ELSE <<>>,
     outlook |-> IF Matches(gpt_text, "Outlook:", "Summary:")
                 THEN Strip(Group1(gpt_text, "Outlook:", "Summary:"))
                 ELSE <<>>,
     \* re.search(r"Summary:\s*(.*)"): everything after the first label
     summary |-> IF FindLabel(gpt_text, "Summary:", 1) # 0
                 THEN Strip(Drop(gpt_text, FindLabel(gpt_text, "Summary:", 1)))
                 ELSE Strip(gpt_text)]

\* ------------------------------------------------------------------ inputs

\* Request bodies: whether the body is JSON at all, companyName by its length
\* (0: missing or empty) and website as tokens (<<>>: missing or empty).
Requests ==
    { [json |-> TRUE, companyName |-> 4, website |-> <<"https://", "example.com">>],
      [json |-> TRUE, companyName |-> 200, website |-> <<"http://", "acme.com", "/", "about">>],
      [json |-> TRUE, companyName |-> 4, website |-> <<"example.com">>],
      [json |-> TRUE, companyName |-> 4, website |-> <<"example.com", "/", "about">>],
      [json |-> TRUE, companyName |-> 4, website |-> <<"httpbin.org">>],
      [json |-> TRUE, companyName |-> 4, website |-> <<"https://">>],
      [json |-> TRUE, companyName |-> 4, website |-> <<"https://", "/", "about">>],
      [json |-> TRUE, companyName |-> 201, website |-> <<"https://", "example.com">>],
      [json |-> TRUE, companyName |-> 201, website |-> <<"example.com">>],
      [json |-> TRUE, companyName |-> 0, website |-> <<"https://", "example.com">>],
      [json |-> TRUE, companyName |-> 4, website |-> <<>>],
      [json |-> FALSE, companyName |-> 0, website |-> <<>>] }

\* Links the search provider may return.  The first is also a fallback URL.
L1 == "https://example.com/about"
L2 == "https://example.com/mission"
L3 == "https://blog.example.com/team"
L4 == "https://example.com/vision"

Hit(u) == [link |-> u]
NoLink == [title |-> "a result without a link"]

\* results.get('organic_results', []) as the provider may answer
OrganicResults ==
    { <<>>,
      <<Hit(L2)>>,
      <<Hit(L2), Hit(L3), Hit(L2)>>,
      <<Hit(L3), Hit(L2), Hit(L1), Hit(L2), Hit(L4), Hit(L1)>>,
      <<Hit(L2), NoLink>>,
      <<Hit(L1), Hit(L2), Hit(L3), Hit(L4), Hit(L2), NoLink>> }

\* search.get_dict() returns, or raises with a message
SearchOutcomes ==
    [kind : {"ok"}, organic : OrganicResults, msg : {""}]
      \cup [kind : {"raise"}, organic : {<<>>}, msg : {"search provider unreachable"}]

\* The state of the web during one request: which pages answer.
Nets == {"down", "up", "some"}

SomePages == {L2, L4, "https://example.com/about", "https://example.com/fees",
              "https://acme.com/team", "https://acme.com/our-story"}

\* Pages that answer but hold none of the elements smart_scrape extracts
BlankPages == {L4, "https://example.com/team", "https://acme.com/our-story"}

\* requests.get(url) raises (unreachable, timeout) in this state of the web
FetchRaises(n, url) ==
    CASE n = "down" -> TRUE
      [] n = "some" -> url \notin SomePages
      [] OTHER      -> FALSE

\* the text extracted from the page at url when the fetch succeeds
PageText(url) == IF url \in BlankPages THEN "" ELSE "text of " \o url

\* Replies of the LLM, as tokens
Replies ==
    { <<"Goals:", " ", "grow", "\n", "Outlook:", " ", "steady", "\n",
        "Summary:", "\n", "fine", " ", "firm">>,
      <<"goals:", " ", "grow", "\n", "OUTLOOK:", " ", "steady", "\n",
        "summary:", " ", "fine", "\n">>,
      <<"Goals:", " ", "grow", "\n", "Summary:", " ", "fine">>,
      <<"Goals:", " ", "grow", "\n", "Outlook:", " ", "steady">>,
      <<"Outlook:", " ", "steady", " ", "Summary:", " ", "fine">>,
      <<"Goals:", " ", "\n", "Outlook:", " ", "\n", "Outlook:", "\n", "Summary:">>,
      <<" ", "fine", " ", "firm", "\n">>,
      <<>> }

\* Messages of the exceptions the completion call may raise: plain text
\* that holds none of the labels the parser looks for
ErrMsgs == { <<"Request", " ", "timed", " ", "out.">> }

\* client.chat.completions.create(...) returns a reply, or raises
LlmOutcomes ==
    [kind : {"reply"}, text : Replies] \cup [kind : {"raise"}, text : ErrMsgs]

\* ------------------------------------------------------------------- state

VARIABLES
    cache,          \* lru_cache of smart_scrape: <<[url, text]>>, least recently used first
    nreq,           \* requests received so far
    pc,             \* where run_agent is: idle, check, normalize, search, scrape, summarize, parse
    data,           \* request.get_json(): [companyName, website]
    net,            \* the state of the web during the request
    website,        \* run_agent's website after normalize_domain
    domain,         \* run_agent's domain
    urls,           \* run_agent's urls
    idx,            \* position of the for loop over urls
    combined_text,  \* run_agent's combined_text: page texts and "\n"
    summary_text,   \* run_agent's summary_text, as tokens
    response,       \* the response of the request in flight, once sent
    calls,          \* history: outbound calls of the request, in order
    scrapes,        \* history: smart_scrape calls of the request, in order:
                    \* [url, text, fetched, gap]
    organic,        \* history: what the search provider answered
    prompt,         \* history: the combined text handed to the LLM
    llm,            \* history: what the LLM call did
    nresp,          \* history: responses sent so far
    seen            \* history: per url scraped so far, [url, text, failed, others]:
                    \* the text its latest smart_scrape call returned, whether that
                    \* text stems from a failed fetch, and the other urls scraped
                    \* since (recorded up to maxsize of them)

vars == << cache, nreq, pc, data, net, website, domain, urls, idx,
           combined_text, summary_text, response, calls, scrapes, organic,
           prompt, llm, nresp, seen >>

NoResponse == [status |-> 0]
NoData     == [json |-> TRUE, companyName |-> 0, website |-> <<>>]
NoLlm      == [kind |-> "none", text |-> <<>>]
NoOrganic  == [kind |-> "none", organic |-> <<>>, msg |-> ""]

Init ==
    /\ cache = <<>>
    /\ nreq = 0
    /\ pc = "idle"
    /\ data = NoData
    /\ net = "up"
    /\ website = <<>>
    /\ domain = ""
    /\ urls = <<>>
    /\ idx = 1
    /\ combined_text = <<>>
    /\ summary_text = <<>>
    /\ response = NoResponse
    /\ calls = <<>>
    /\ scrapes = <<>>
    /\ organic = NoOrganic
    /\ prompt = <<>>
    /\ llm = NoLlm
    /\ nresp = 0
    /\ seen = {}

\* ------------------------------------------------------------- smart_scrape

\* scrape_page with the failure reported in the text it returns
scrape_page_error_text(n, url) ==
    IF FetchRaises(n, url) THEN "Smart scraping error at " \o url ELSE PageText(url)

\* the body of smart_scrape: the extracted text, or "" when anything raises
scrape_page(n, url) ==
    IF FetchRaises(n, url) THEN "" ELSE PageText(url)

\* lru_cache lookup
Cached(c, url) == \E k \in 1..Len(c) : c[k].url = url

CachedAt(c, url) == CHOOSE k \in 1..Len(c) : c[k].url = url

\* lru_cache on a hit: the entry becomes the most recently used
Touch(c, url) ==
    LET k == CachedAt(c, url)
    IN  SubSeq(c, 1, k - 1) \o SubSeq(c, k + 1, Len(c)) \o <<c[k]>>

\* Store with the eviction at the wrong end: the newest entry makes room
StoreEvictNewest(c, url, text) ==
    (IF Len(c) >= maxsize THEN SubSeq(c, 1, Len(c) - 1) ELSE c)
        \o <<[url |-> url, text |-> text]>>

\* lru_cache on a miss: the result is stored, the least recently used entry
\* making room for it when the cache is full
Store(c, url, text) ==
    (IF Len(c) >= maxsize THEN Tail(c) ELSE c) \o <<[url |-> url, text |-> text]>>

\* smart_scrape with a failed fetch left out of the cache
smart_scrape_forgets_failure(c, n, url) ==
    IF Cached(c, url)
    THEN [raised |-> FALSE, text |-> c[CachedAt(c, url)].text,
          cache |-> Touch(c, url), fetched |-> FALSE, failed |-> FALSE]
    ELSE [raised |-> FALSE, text |-> scrape_page(n, url),
          cache |-> IF FetchRaises(n, url) THEN c
                    ELSE Store(c, url, scrape_page(n, url)),
          fetched |-> TRUE, failed |-> FetchRaises(n, url)]

\* one call smart_scrape(url) through the cache: the text returned, the
\* cache afterwards, whether a fetch went out and whether it failed
smart_scrape(c, n, url) ==
    IF Cached(c, url)
    THEN [raised |-> FALSE, text |-> c[CachedAt(c, url)].text,
          cache |-> Touch(c, url), fetched |-> FALSE, failed |-> FALSE]
    ELSE [raised |-> FALSE, text |-> scrape_page(n, url),
          cache |-> Store(c, url, scrape_page(n, url)),
          fetched |-> TRUE, failed |-> FetchRaises(n, url)]

\* how many other urls were scraped since url's latest call (maxsize stands
\* for maxsize or more), -1 when url was never scraped
Gap(sn, url) ==
    IF \E s \in sn : s.url = url
    THEN Cardinality((CHOOSE s \in sn : s.url = url).others)
    ELSE -1

\* the history of scraped urls after a call of smart_scrape(url) that gave r
Seen(sn, url, r) ==
    { [s EXCEPT !.others = IF Cardinality(@) < maxsize THEN @ \cup {url} ELSE @]
        : s \in {t \in sn : t.url # url} }
    \cup
    { [url |-> url, text |-> r.text,
       failed |-> IF r.fetched THEN r.failed
                  ELSE \E t \in sn : t.url = url /\ t.failed,
       others |-> {}] }

\* ------------------------------------------------------ search_company_pages

HasLink(res) == "link" \in DOMAIN res

\* search_company_pages with a local catch: a failed search gives no links
search_company_pages_degrades(o) ==
    LET top == Take(o.organic, TopN)
    IN  IF o.kind = "raise" \/ \E k \in 1..Len(top) : ~HasLink(top[k])
        THEN [raised |-> FALSE, msg |-> "", links |-> <<>>]
        ELSE [raised |-> FALSE, msg |-> "",
              links |-> [k \in 1..Len(top) |-> top[k].link]]

\* search_company_pages without the [:5]
search_company_pages_unsliced(o) ==
    IF o.kind = "raise"
    THEN [raised |-> TRUE, msg |-> o.msg, links |-> <<>>]
    ELSE IF \E k \in 1..Len(o.organic) : ~HasLink(o.organic[k])
    THEN [raised |-> TRUE, msg |-> "'link'", links |-> <<>>]
    ELSE [raised |-> FALSE, msg |-> "",
          links |-> [k \in 1..Len(o.organic) |-> o.organic[k].link]]

\* [res['link'] for res in results.get('organic_results', [])[:5]]; raises
\* when get_dict() raises or one of the results taken has no 'link'
search_company_pages(o) ==
    LET top == Take(o.organic, TopN)
    IN  IF o.kind = "raise"
        THEN [raised |-> TRUE, msg |-> o.msg, links |-> <<>>]
        ELSE IF \E k \in 1..Len(top) : ~HasLink(top[k])
        THEN [raised |-> TRUE, msg |-> "'link'", links |-> <<>>]
        ELSE [raised |-> FALSE, msg |-> "",
              links |-> [k \in 1..Len(top) |-> top[k].link]]

\* the fallback taken for fewer than two links as well
candidate_urls_below_two(links, d) ==
    IF Len(links) < 2 THEN fallback_urls(d) ELSE links

\* if not urls: urls = fallback_urls(domain)
candidate_urls(links, d) == IF links = <<>> THEN fallback_urls(d) ELSE links

\* -------------------------------------------------------- summarize_with_gpt

ErrorPrefix == <<"Error from OpenAI:", " ">>

\* summarize_with_gpt without its try/except
summarize_with_gpt_propagates(o) ==
    IF o.kind = "reply"
    THEN [raised |-> FALSE, text |-> Strip(o.text)]
    ELSE [raised |-> TRUE, text |-> <<>>]

\* the reply stripped, or the error string when the completion call raises;
\* nothing is raised to the caller
summarize_with_gpt(o) ==
    IF o.kind = "reply"
    THEN [raised |-> FALSE, text |-> Strip(o.text)]
    ELSE [raised |-> FALSE, text |-> ErrorPrefix \o o.text]

Placeholder == "No meaningful content was scraped from the provided URLs."

\* not combined_text.strip()
IsBlank(text) == \A k \in 1..Len(text) : text[k] \in {"", "\n", " "}

\* the page text put in front of what was gathered
prepend_text(combined, text) == <<text, "\n">> \o combined

\* combined_text += smart_scrape(url) + "\n"
append_text(combined, text) == combined \o <<text, "\n">>

\* the text handed to the summarizer
text_for_llm(text) == IF IsBlank(text) THEN <<Placeholder>> ELSE text

\* ------------------------------------------------------------------ run_agent

ErrorResponse(code, msg) ==
    [status |-> code, error |-> msg, companyName |-> 0, website |-> <<>>,
     urlsUsed |-> <<>>, goals |-> <<>>, outlook |-> <<>>, summary |-> <<>>]

\* jsonify(result)
ResultResponse(company, site, used, parsed) ==
    [status |-> 200, error |-> "", companyName |-> company, website |-> site,
     urlsUsed |-> used, goals |-> parsed.goals, outlook |-> parsed.outlook,
     summary |-> parsed.summary]

\* return jsonify(...), code: the request is over
Reply(r) ==
    /\ response' = r
    /\ nresp' = nresp + 1
    /\ pc' = "idle"

\* a POST /run arrives while the handler is free
Receive(r, n) ==
    /\ pc = "idle"
    /\ nreq < MaxRequests
    /\ nreq' = nreq + 1
    /\ data' = r
    /\ net' = n
    /\ pc' = "check"
    /\ website' = <<>>
    /\ domain' = ""
    /\ urls' = <<>>
    /\ idx' = 1
    /\ combined_text' = <<>>
    /\ summary_text' = <<>>
    /\ response' = NoResponse
    /\ calls' = <<>>
    /\ scrapes' = <<>>
    /\ organic' = NoOrganic
    /\ prompt' = <<>>
    /\ llm' = NoLlm
    /\ UNCHANGED <<cache, nresp, seen>>

\* request.get_json(force=True), the missing-field test and validate_inputs
Check ==
    /\ pc = "check"
    /\ IF ~data.json
       THEN Reply(ErrorResponse(500, "Failed to decode JSON object"))
       ELSE IF data.companyName = 0 \/ data.website = <<>>
       THEN Reply(ErrorResponse(400, "Missing companyName or website"))
       ELSE LET v == validate_inputs(data.companyName, data.website)
            IN  IF ~v.ok
                THEN Reply(ErrorResponse(400, v.error))
                ELSE /\ pc' = "normalize"
                     /\ UNCHANGED <<response, nresp>>
    /\ UNCHANGED <<cache, nreq, data, net, website, domain, urls, idx,
                   combined_text, summary_text, calls, scrapes, organic,
                   prompt, llm, seen>>

\* website, domain = normalize_domain(website)
Normalize ==
    /\ pc = "normalize"
    /\ website' = normalize_domain(data.website).website
    /\ domain' = normalize_domain(data.website).domain
    /\ pc' = "search"
    /\ UNCHANGED <<cache, nreq, data, net, urls, idx, combined_text,
                   summary_text, response, calls, scrapes, organic, prompt,
                   llm, nresp, seen>>

\* urls = search_company_pages(company, domain), and the fallback
Search(o) ==
    /\ pc = "search"
    /\ calls' = Append(calls, "search")
    /\ organic' = o
    /\ LET r == search_company_pages(o)
       IN  IF r.raised
           THEN /\ Reply(ErrorResponse(500, r.msg))
                /\ UNCHANGED urls
           ELSE /\ urls' = candidate_urls(r.links, domain)
                /\ pc' = IF urls' = <<>> THEN "summarize" ELSE "scrape"
                /\ UNCHANGED <<response, nresp>>
    /\ UNCHANGED <<cache, nreq, data, net, website, domain, idx,
                   combined_text, summary_text, scrapes, prompt, llm, seen>>

\* one turn of  for url in urls: combined_text += smart_scrape(url) + "\n"
Scrape ==
    /\ pc = "scrape"
    /\ idx <= Len(urls)
    /\ LET url == urls[idx]
           r   == smart_scrape(cache, net, url)
       IN  /\ calls' = IF r.fetched THEN Append(calls, "GET " \o url) ELSE calls
           /\ IF r.raised
              THEN /\ Reply(ErrorResponse(500, "fetch failed"))
                   /\ UNCHANGED <<cache, combined_text, idx, scrapes, seen>>
              ELSE /\ cache' = r.cache
                   /\ combined_text' = append_text(combined_text, r.text)
                   /\ idx' = idx + 1
                   /\ scrapes' = Append(scrapes,
                          [url |-> url, text |-> r.text, fetched |-> r.fetched,
                           gap |-> Gap(seen, url)])
                   /\ seen' = Seen(seen, url, r)
                   /\ pc' = IF idx = Len(urls) THEN "summarize" ELSE "scrape"
                   /\ UNCHANGED <<response, nresp>>
    /\ UNCHANGED <<nreq, data, net, website, domain, urls, summary_text,
                   organic, prompt, llm>>

\* the placeholder for an empty scrape, and summarize_with_gpt
Summarize(o) ==
    /\ pc = "summarize"
    /\ prompt' = text_for_llm(combined_text)
    /\ llm' = o
    /\ calls' = Append(calls, "llm")
    /\ LET r == summarize_with_gpt(o)
       IN  IF r.raised
           THEN /\ Reply(ErrorResponse(500, "completion failed"))
                /\ UNCHANGED summary_text
           ELSE /\ summary_text' = r.text
                /\ pc' = "parse"
                /\ UNCHANGED <<response, nresp>>
    /\ UNCHANGED <<cache, nreq, data, net, website, domain, urls, idx,
                   combined_text, scrapes, organic, seen>>

\* parse_gpt_response and the 200 response
Parse ==
    /\ pc = "parse"
    /\ Reply(ResultResponse(data.companyName, website, urls,
                            parse_gpt_response(summary_text)))
    /\ UNCHANGED <<cache, nreq, data, net, website, domain, urls, idx,
                   combined_text, summary_text, calls, scrapes, organic,
                   prompt, llm, seen>>

Next ==
    \/ \E r \in Requests, n \in Nets : Receive(r, n)
    \/ Check
    \/ Normalize
    \/ \E o \in SearchOutcomes : Search(o)
    \/ Scrape
    \/ \E o \in LlmOutcomes : Summarize(o)
    \/ Parse

Spec == Init /\ [][Next]_vars

\* Every step of the handler is taken once it can be: each outbound call
\* returns or raises (the fetch has a timeout), and nothing else blocks.
Handler ==
    \/ Check
    \/ Normalize
    \/ \E o \in SearchOutcomes : Search(o)
    \/ Scrape
    \/ \E o \in LlmOutcomes : Summarize(o)
    \/ Parse

FairSpec == Spec /\ WF_vars(Handler)

TypeOK ==
    /\ pc \in {"idle", "check", "normalize", "search", "scrape", "summarize", "parse"}
    /\ Len(cache) <= maxsize
    /\ nresp <= nreq
    /\ nreq <= MaxRequests

\* ------------------------------------------------------------------ claims

\* a call of smart_scrape has just been completed by this step
ScrapeStep == pc = "scrape" /\ Len(scrapes') = Len(scrapes) + 1

LastScrape == scrapes[Len(scrapes)]

\* C1: a call smart_scrape(u) that follows an earlier call smart_scrape(u)
\* with fewer than maxsize other distinct urls scraped in between issues no
\* fetch and returns the text the earlier call returned; no call issues more
\* than one fetch.  Hence the two calls fetch u at most once.
C1_SecondCallServedFromCache ==
    [][ ScrapeStep =>
          /\ Len(calls') <= Len(calls) + 1
          /\ \A s \in seen :
                (s.url = urls[idx] /\ Cardinality(s.others) < maxsize)
                    => /\ calls' = calls
                       /\ ~scrapes'[Len(scrapes')].fetched
                       /\ scrapes'[Len(scrapes')].text = s.text ]_vars

\* C1 witness: in a second request a url last scraped with maxsize - 1 other
\* urls in between is served without a fetch, with the text it had then,
\* although the page would now give another text.
C1_Witness ==
    /\ nreq = 2
    /\ scrapes # <<>>
    /\ LastScrape.gap = maxsize - 1
    /\ ~LastScrape.fetched
    /\ LastScrape.text # scrape_page(net, LastScrape.url)

\* C10: a failed fetch is memoized.  Once smart_scrape(u) has returned ""
\* for a failed fetch, a call smart_scrape(u) with fewer than maxsize other
\* urls scraped since (so that u's entry is still in the cache) returns ""
\* and fetches nothing, whatever the page would answer now; and u is fetched
\* only when it has no entry in the cache.
C10_FailureMemoized ==
    [][ ScrapeStep =>
          /\ \A s \in seen :
                (s.url = urls[idx] /\ s.failed
                   /\ (Cardinality(s.others) < maxsize \/ Cached(cache, s.url)))
                    => /\ calls' = calls
                       /\ scrapes'[Len(scrapes')].text = "" 
          /\ calls' # calls => ~Cached(cache, urls[idx]) ]_vars

\* C10 witness: in a later request a url whose fetch had failed is served ""
\* from the cache although its page now answers with a text.
C10_Witness ==
    /\ nreq = 2
    /\ scrapes # <<>>
    /\ ~LastScrape.fetched
    /\ LastScrape.text = ""
    /\ \E s \in seen : s.url = LastScrape.url /\ s.failed
    /\ ~FetchRaises(net, LastScrape.url)
    /\ PageText(LastScrape.url) # ""

\* the request in flight has been answered
Answered == pc = "idle" /\ nreq > 0

\* the search call of the request returned normally
SearchReturned ==
    /\ organic.kind = "ok"
    /\ \A k \in 1..Len(organic.organic) : k <= 5 => "link" \in DOMAIN organic.organic[k]

\* the first up-to-5 links of the provider's answer, in its order
FirstLinks ==
    [k \in 1..(IF Len(organic.organic) < 5 THEN Len(organic.organic) ELSE 5)
        |-> organic.organic[k].link]

\* the urls fetched by the request, in order
Fetches == SelectSeq(calls, LAMBDA c : c \notin {"search", "llm"})

\* C4: once the search has returned normally, the candidate list is the
\* fallback list exactly when the provider gave zero results; then it is the
\* 14-entry list made from the domain, https://<domain>/about among them;
\* otherwise it is the first up-to-5 links in the provider's order and only
\* those links are fetched.  The list is what the response reports.
C4_FallbackIffNoResults ==
    SearchReturned =>
        /\ (urls = fallback_urls(domain)) <=> (Len(organic.organic) = 0)
        /\ Len(organic.organic) = 0 =>
              /\ Len(urls) = 14
              /\ urls[1] = "https://" \o domain \o "/about"
              /\ \A k \in 1..14 : urls[k] = "https://" \o domain \o FallbackPaths[k]
        /\ Len(organic.organic) # 0 =>
              /\ urls = FirstLinks
              /\ \A k \in 1..Len(Fetches) :
                    \E j \in 1..Len(FirstLinks) : Fetches[k] = "GET " \o FirstLinks[j]
        /\ (Answered /\ response.status = 200) => response.urlsUsed = urls

\* C4 witness: a request for acme.com answered 200 after an empty search,
\* reporting the fallback list with https://acme.com/about in it.
C4_Witness ==
    /\ Answered
    /\ response.status = 200
    /\ organic.kind = "ok"
    /\ organic.organic = <<>>
    /\ domain = "acme.com"
    /\ Len(response.urlsUsed) = 14
    /\ response.urlsUsed[1] = "https://acme.com/about"

\* C5: when the completion call raises, the request is answered 200, the
\* summary is the error string and goals and outlook are empty, the
\* default of this parser.
C5_LlmFailureIs200 ==
    (Answered /\ llm.kind = "raise") =>
        /\ response.status = 200
        /\ response.summary = <<"Error from OpenAI:", " ">> \o llm.text
        /\ response.goals = <<>>
        /\ response.outlook = <<>>

\* C5 witness: a request whose completion call timed out, answered.
C5_Witness ==
    /\ Answered
    /\ llm.kind = "raise"
    /\ llm.text = <<"Request", " ", "timed", " ", "out.">>
    /\ response.status = 200

\* number of LLM calls of the request
LlmCalls == Len(SelectSeq(calls, LAMBDA c : c = "llm"))

\* C6: every url whose fetch fails puts "" into the combined text; a request
\* whose search returned normally is answered 200 after exactly one LLM
\* call, however many fetches failed; and when every scrape is empty the
\* LLM gets the placeholder text.
C6_FetchFailuresAbsorbed ==
    /\ \A k \in 1..Len(scrapes) :
          (scrapes[k].fetched /\ FetchRaises(net, scrapes[k].url))
              => /\ scrapes[k].text = ""
                 /\ combined_text[2 * k - 1] = ""
    /\ (Answered /\ SearchReturned) =>
          /\ response.status = 200
          /\ LlmCalls = 1
          /\ (\A k \in 1..Len(scrapes) : scrapes[k].text = "")
                => prompt = <<"No meaningful content was scraped from the provided URLs.">>

\* C6 witness: every one of the 14 fallback fetches failed, and the request
\* was answered 200 with the LLM called on the placeholder.
C6_Witness ==
    /\ Answered
    /\ response.status = 200
    /\ Len(scrapes) = 14
    /\ \A k \in 1..14 : scrapes[k].fetched /\ FetchRaises(net, scrapes[k].url)
    /\ prompt = <<Placeholder>>
    /\ LlmCalls = 1

\* C9: when the search call raises, the request is answered 500 with the
\* exception's message after that one outbound call: no candidate list, no
\* fetch, no LLM call.  The fallback list is used only after a search that
\* returned normally with zero results.
C9_SearchFailureIs500 ==
    /\ (Answered /\ organic.kind = "raise") =>
          /\ response.status = 500
          /\ response.error = organic.msg
          /\ calls = <<"search">>
          /\ urls = <<>>
          /\ scrapes = <<>>
    /\ (urls # <<>> /\ urls = fallback_urls(domain)) =>
          /\ organic.kind = "ok"
          /\ organic.organic = <<>>

\* C9 witness: a request whose search raised, answered 500.
C9_Witness ==
    /\ Answered
    /\ organic.kind = "raise"
    /\ response.status = 500
    /\ response.error = "search provider unreachable"

\* the smart_scrape calls of the request that went out to the network
Fetched == SelectSeq(scrapes, LAMBDA c : c.fetched)

\* the steps of run_agent in their order, and the ways out of it
Order ==
    { <<"idle", "check">>, <<"check", "normalize">>, <<"normalize", "search">>,
      <<"search", "scrape">>, <<"scrape", "summarize">>, <<"summarize", "parse">>,
      <<"check", "idle">>, <<"search", "idle">>, <<"parse", "idle">> }

C8_Sequenced ==
    \* a request rejected with 400 made no outbound call
    /\ (Answered /\ response.status = 400) => calls = <<>>
    \* nothing goes out before the inputs were validated and normalized
    /\ calls # <<>> =>
          /\ validate_inputs(data.companyName, data.website).ok
          /\ website = normalize_domain(data.website).website
          /\ domain = normalize_domain(data.website).domain
    \* the search call is the first call and the LLM call the last, made
    \* after every candidate url was scraped
    /\ \A k \in 1..Len(calls) :
          /\ calls[k] = "search" <=> k = 1
          /\ calls[k] = "llm" =>
                k = Len(calls) /\ pc \in {"parse", "idle"} /\ Len(scrapes) = Len(urls)
    \* the urls are scraped one by one in the order of the candidate list
    /\ Len(scrapes) <= Len(urls)
    /\ \A k \in 1..Len(scrapes) : scrapes[k].url = urls[k]
    /\ pc = "scrape" => idx = Len(scrapes) + 1
    /\ Len(Fetches) = Len(Fetched)
    /\ \A k \in 1..Len(Fetches) : Fetches[k] = "GET " \o Fetched[k].url
    \* the combined text is the texts returned, each with its "\n", in that order
    /\ Len(combined_text) = 2 * Len(scrapes)
    /\ \A k \in 1..Len(scrapes) :
          /\ combined_text[2 * k - 1] = scrapes[k].text
          /\ combined_text[2 * k] = "\n"

\* C8: within a request the steps go validate, normalize, search, scrape,
\* summarize, parse: no outbound call in a request rejected with 400, the
\* search before every fetch, every fetch before the LLM call, the pages
\* scraped one at a time in candidate-list order and the combined text their
\* texts concatenated in that order.
C8_FixedOrder ==
    /\ []C8_Sequenced
    /\ [][pc' # pc => <<pc, pc'>> \in Order]_vars

\* C8 witness: an answered request that scraped two pages with different
\* non-empty texts before its one LLM call.
C8_Witness ==
    /\ Answered
    /\ response.status = 200
    /\ Len(scrapes) >= 2
    /\ scrapes[1].text # ""
    /\ scrapes[2].text # ""
    /\ scrapes[1].text # scrapes[2].text
    /\ calls[Len(calls)] = "llm"

C7_Bounded ==
    \* one response per request, sent when the handler ends
    /\ nresp <= nreq
    /\ nreq <= nresp + 1
    /\ pc = "idle" <=> nresp = nreq
    /\ pc # "idle" => response = NoResponse
    /\ Answered => response.status \in {200, 400, 500}
    \* one search, at most 14 fetches, at most one LLM call; no url is
    \* scraped twice over
    /\ Len(SelectSeq(calls, LAMBDA c : c = "search")) <= 1
    /\ Len(Fetches) <= 14
    /\ LlmCalls <= 1
    /\ Len(scrapes) <= Len(urls)
    /\ Len(urls) <= IF organic.organic = <<>> THEN 14 ELSE 5

\* C7: every request ends with exactly one response, of status 200, 400 or
\* 500, given that each outbound call returns or raises; a request makes
\* one search, at most 14 fetches and at most one LLM call.
C7_Terminates ==
    /\ []C7_Bounded
    /\ (pc # "idle") ~> (pc = "idle")

\* C7 witness: a request answered 200 after a search, 13 or more fetches
\* and the LLM call.
C7_Witness ==
    /\ Answered
    /\ response.status = 200
    /\ Len(Fetches) >= 13
    /\ LlmCalls = 1
    /\ nresp = nreq

NotFound == <<"Not", " ", "Found">>

\* C2: parse_gpt_response does not throw, and a reply without an
\* "Outlook:" ... "Summary:" section gives outlook "Not Found", one without
\* a "Goals:" ... "Outlook:" section gives goals "Not Found".
C2_NotFoundSentinel ==
    /\ pc = "parse" => ENABLED Parse
    /\ (Answered /\ response.status = 200) =>
          /\ ~Matches(summary_text, "Outlook:", "Summary:") => response.outlook = NotFound
          /\ ~Matches(summary_text, "Goals:", "Outlook:") => response.goals = NotFound

\* C3: a request is rejected for its website only if the normalized website
\* has no scheme or no host, so that a request with a proper company name
\* and the website example.com is not rejected and goes on with the domain
\* example.com.
C3_ValidatedAfterNormalizing ==
    Answered =>
        /\ (response.status = 400
              /\ response.error \in {"Invalid website URL", "Invalid website format"})
            => LET n == urlparse(normalize_domain(data.website).website)
               IN  n.scheme = "" \/ n.netloc = ""
        /\ (data.companyName \in 1..200 /\ data.website = <<"example.com">>)
            => /\ response.status # 400
               /\ domain = "example.com"

====
